---- MODULE Spec2Model ----
(***************************************************************************)
(* A model of gobits, a server for the BITS upload protocol (src/gobits.go).*)
(* The handler keeps no state of its own besides its configuration and its *)
(* callback: the upload state is the content of the temporary directory.   *)
(* Header values that the code parses or formats are sequences of          *)
(* one-character strings; the other strings are TLA+ strings.              *)
(***************************************************************************)
EXTENDS Integers, Sequences, FiniteSets, TLC

(***************************************************************************)
(* Bounds of the model.                                                    *)
(***************************************************************************)
\* Length of the file a client uploads.
FileLen == 3
\* Number of requests the server handles at the same time.
MaxWorkers == 2
\* Number of I/O operations that may fail in one behaviour.
MaxFaults == 1
\* Width, in bits, that stands for the 64 bits of a Go uint64.
UintBits == 4

UintMod == 2 ^ UintBits

(***************************************************************************)
(* Unsigned arithmetic of Go's uint64, at the model's width.               *)
(***************************************************************************)
USub(a, b) == (a - b + UintMod) % UintMod
UAdd(a, b) == (a + b) % UintMod

(***************************************************************************)
(* Text: strconv.FormatUint, strconv.FormatInt, strconv.ParseUint,         *)
(* strings.HasPrefix, strings.Split.                                       *)
(***************************************************************************)
Digits == <<"0", "1", "2", "3", "4", "5", "6", "7", "8", "9">>
HexDigits == Digits \o <<"a", "b", "c", "d", "e", "f">>

RECURSIVE FormatBase(_, _)
FormatBase(n, base) ==
    IF n < base THEN <<HexDigits[n + 1]>>
    ELSE Append(FormatBase(n \div base, base), HexDigits[(n % base) + 1])

\* strconv.FormatUint(n, 10)
FormatUint(n) == FormatBase(n, 10)
\* A rendering in base 10.
FormatDecimal(n) == IF n < 0 THEN <<"-">> \o FormatBase(-n, 10) ELSE FormatBase(n, 10)
\* strconv.FormatInt(int64(n), 16)
FormatHex(n) == IF n < 0 THEN <<"-">> \o FormatBase(-n, 16) ELSE FormatBase(n, 16)

IsDigit(c) == \E i \in 1..10 : Digits[i] = c
DigitVal(c) == (CHOOSE i \in 1..10 : Digits[i] = c) - 1

RECURSIVE ParseDigits(_, _)
\* The value of the digits of s after acc, or -1 once it leaves the uint range.
ParseDigits(s, acc) ==
    IF acc < 0 \/ s = <<>> THEN acc
    ELSE LET v == acc * 10 + DigitVal(Head(s))
         IN  ParseDigits(Tail(s), IF v >= UintMod THEN -1 ELSE v)

\* A ParseUint that reads the empty string as 0.
ParseUintLenient(s) ==
    IF \E i \in 1..Len(s) : ~IsDigit(s[i]) THEN [ok |-> FALSE, val |-> 0]
    ELSE LET v == ParseDigits(s, 0)
         IN  IF v < 0 THEN [ok |-> FALSE, val |-> 0] ELSE [ok |-> TRUE, val |-> v]

\* strconv.ParseUint(s, 10, 64): ok is FALSE for an empty string, a character
\* that is no digit (a sign included), and a value out of range.
ParseUint(s) ==
    IF s = <<>> \/ \E i \in 1..Len(s) : ~IsDigit(s[i])
    THEN [ok |-> FALSE, val |-> 0]
    ELSE LET v == ParseDigits(s, 0)
         IN  IF v < 0 THEN [ok |-> FALSE, val |-> 0] ELSE [ok |-> TRUE, val |-> v]

HasPrefix(s, p) == Len(s) >= Len(p) /\ SubSeq(s, 1, Len(p)) = p

RECURSIVE Split(_, _)
\* strings.Split(s, sep) for a one-character sep: never empty, "" gives <<"">>.
Split(s, sep) ==
    IF \A i \in 1..Len(s) : s[i] # sep THEN <<s>>
    ELSE LET k == CHOOSE i \in 1..Len(s) :
                      s[i] = sep /\ \A j \in 1..(i - 1) : s[j] # sep
         IN  <<SubSeq(s, 1, k - 1)>> \o Split(SubSeq(s, k + 1, Len(s)), sep)

BytesPrefix == <<"b", "y", "t", "e", "s", " ">>

RangeError(kind) == [start |-> 0, end |-> 0, total |-> 0, err |-> kind]

\* parseRange: "bytes <start>-<end>/<total>"; err is "" on success, "syntax"
\* for a wrong shape and "number" for a field strconv.ParseUint refuses.
parseRange(rangeString) ==
    IF ~HasPrefix(rangeString, BytesPrefix) THEN RangeError("syntax")
    ELSE LET rangeArray == Split(SubSeq(rangeString, 7, Len(rangeString)), "/")
         IN  IF Len(rangeArray) # 2 THEN RangeError("syntax")
             ELSE LET fileLength == ParseUint(rangeArray[2])
                      startEnd == Split(rangeArray[1], "-")
                  IN  IF ~fileLength.ok THEN RangeError("number")
                      ELSE IF Len(startEnd) # 2 THEN RangeError("syntax")
                      ELSE LET rangeStart == ParseUint(startEnd[1])
                               rangeEnd == ParseUint(startEnd[2])
                           IN  IF ~rangeStart.ok THEN RangeError("number")
                               ELSE IF ~rangeEnd.ok THEN RangeError("number")
                               ELSE [start |-> rangeStart.val, end |-> rangeEnd.val,
                                     total |-> fileLength.val, err |-> ""]

\* What a client writes in Content-Range for the bytes start..end of total.
ContentRangeOf(start, end, total) ==
    BytesPrefix \o FormatUint(start) \o <<"-">> \o FormatUint(end)
        \o <<"/">> \o FormatUint(total)

(***************************************************************************)
(* Configuration and construction (Config, Handler, NewHandler).           *)
(***************************************************************************)
DefaultMethod == "BITS_POST"
DefaultProtocol == "{7df0354d-249b-430f-820d-3d2a9bef4931}"
MatchAll == ".*"
ExePattern == ".*\\.exe"
BadPattern == "?"

\* The file names the clients of the model use, and the patterns' matches:
\* regexp.MatchString looks for a match anywhere in the name.
FileNames == {"a.bin", "b.exe"}
Compiles(reg) == reg # BadPattern
MatchString(reg, filename) ==
    CASE reg = MatchAll -> TRUE
      [] reg = ExePattern -> filename \in {"b.exe"}
      [] OTHER -> FALSE

\* The events the callback receives.
EventCreateSession == 0
EventRecieveFile == 1
EventCloseSession == 2
EventCancelSession == 3

\* The error contexts of BITS.
ErrorContextNone == 0
ErrorContextUnknown == 1
ErrorContextGeneralQueueManager == 2
ErrorContextQueueManagerNotification == 3
ErrorContextLocalFile == 4
ErrorContextRemoteFile == 5
ErrorContextGeneralTransport == 6
ErrorContextRemoteApplication == 7

\* The HTTP statuses the handler sends.
StatusOK == 200
StatusBadRequest == 400
StatusMethodNotAllowed == 405
StatusRequestEntityTooLarge == 413
StatusRequestedRangeNotSatisfiable == 416
StatusInternalServerError == 500

\* The callbacks of the model: none (nil), one that only logs (ExampleHandler),
\* and the one of ExampleCallbackFunc, which removes a received file and the
\* directory of a closed or canceled session.
Callbacks == {"nil", "log", "cleanup"}

\* path.Join(os.TempDir(), "gobits")
DefaultTempDir == "<os.TempDir>/gobits"

\* Config{}: every field empty.
ZeroConfig ==
    [TempDir |-> "", AllowedMethod |-> "", Protocol |-> "", MaxSize |-> 0,
     Allowed |-> <<>>, Disallowed |-> <<>>]

\* What NewHandler returns with an error: nil, a handler with nothing in it.
NilHandler == [err |-> TRUE, cfg |-> ZeroConfig, callback |-> "nil"]

\* A NewHandler that compiles no pattern.
NewHandlerUnchecked(c, cb) ==
    [err |-> FALSE,
     cfg |-> [TempDir |-> IF c.TempDir = "" THEN DefaultTempDir ELSE c.TempDir,
              AllowedMethod |-> IF c.AllowedMethod = "" THEN DefaultMethod
                                ELSE c.AllowedMethod,
              Protocol |-> IF c.Protocol = "" THEN DefaultProtocol ELSE c.Protocol,
              MaxSize |-> c.MaxSize,
              Allowed |-> IF Len(c.Allowed) = 0 THEN <<MatchAll>> ELSE c.Allowed,
              Disallowed |-> c.Disallowed],
     callback |-> cb]

\* A NewHandler that keeps the configuration as it is given.
NewHandlerAsGiven(c, cb) ==
    IF \/ \E i \in 1..Len(c.Allowed) : ~Compiles(c.Allowed[i])
       \/ \E i \in 1..Len(c.Disallowed) : ~Compiles(c.Disallowed[i])
    THEN NilHandler
    ELSE [err |-> FALSE, cfg |-> c, callback |-> cb]

\* NewHandler: the defaults for the empty fields; an error and no handler when
\* a pattern does not compile.
NewHandler(c, cb) ==
    LET allowed == IF Len(c.Allowed) = 0 THEN <<MatchAll>> ELSE c.Allowed
        bad == \/ \E i \in 1..Len(allowed) : ~Compiles(allowed[i])
               \/ \E i \in 1..Len(c.Disallowed) : ~Compiles(c.Disallowed[i])
    IN  IF bad THEN NilHandler
        ELSE [err |-> FALSE,
              cfg |-> [TempDir |-> IF c.TempDir = "" THEN DefaultTempDir
                                   ELSE c.TempDir,
                       AllowedMethod |-> IF c.AllowedMethod = "" THEN DefaultMethod
                                         ELSE c.AllowedMethod,
                       Protocol |-> IF c.Protocol = "" THEN DefaultProtocol
                                    ELSE c.Protocol,
                       MaxSize |-> c.MaxSize,
                       Allowed |-> allowed,
                       Disallowed |-> c.Disallowed],
              callback |-> cb]

\* A configuration that allows the .exe files only and denies nothing.
ExeOnlyConfig ==
    [TempDir |-> DefaultTempDir,
     AllowedMethod |-> DefaultMethod, Protocol |-> DefaultProtocol,
     MaxSize |-> FileLen + 1,
     Allowed |-> <<ExePattern>>, Disallowed |-> <<>>]

\* The configuration of example/main.go, with a size limit at the model's scale.
ExampleConfig ==
    [TempDir |-> DefaultTempDir,
     AllowedMethod |-> DefaultMethod, Protocol |-> DefaultProtocol,
     MaxSize |-> FileLen + 1,
     Allowed |-> <<MatchAll>>, Disallowed |-> <<ExePattern>>]

(***************************************************************************)
(* The temporary directory: one directory per session, files in it.        *)
(***************************************************************************)
\* The identifiers newUUID may draw.
MaxSessions == 1
UuidNames == <<"11111111-1111-4111-8111-111111111111",
               "22222222-2222-4222-8222-222222222222",
               "33333333-3333-4333-8333-333333333333">>
UUIDs == {UuidNames[i] : i \in 1..MaxSessions}

\* path.Join(TempDir, uuid) is not under TempDir for every uuid: for ".." it is
\* the directory that holds TempDir. Dirs are the directories a session id of
\* the model can name.
ParentDir == ".."
Dirs == UUIDs \cup {ParentDir}

NoFile == [exists |-> FALSE, data |-> <<>>]
NoDir == [exists |-> FALSE, files |-> [f \in FileNames |-> NoFile]]
EmptyDir == [exists |-> TRUE, files |-> [f \in FileNames |-> NoFile]]

\* The file a client uploads, and a payload for its bytes start..end: the bytes
\* of the file, or bytes that are not the file's.
Original == [i \in 1..FileLen |-> i]
Honest(start, end) == [i \in 1..(end - start + 1) |-> start + i]
Forged(start, end) == [i \in 1..(end - start + 1) |-> 0]

(***************************************************************************)
(* Requests and responses.                                                 *)
(***************************************************************************)
\* A request: its method, the headers the handler reads, its URI as the
\* sequence of its path segments ("/BITS/a.bin" is <<"BITS", "a.bin">>), the
\* tokens of BITS-Supported-Protocols, and the bytes of its body.
BaseRequest ==
    [method |-> DefaultMethod, packetType |-> "ping", sessionID |-> "",
     uri |-> <<"BITS", "a.bin">>, protocols |-> <<>>,
     contentRange |-> <<>>, contentLength |-> <<>>, body |-> <<>>]

\* A response: the status, the BITS headers ("" or <<>> for a header that is
\* not sent), the text of the body, whether the handler panicked instead of
\* answering, and the callbacks the request made.
NoResponse ==
    [status |-> 0, packetType |-> "", sessionId |-> "", errorCode |-> <<>>,
     errorContext |-> <<>>, protocol |-> "", acceptEncoding |-> "",
     received |-> <<>>, recieved |-> <<>>, text |-> "", panic |-> FALSE,
     events |-> <<>>]

\* w.Write(nil) without a status sends 200.
Ack(uuid) ==
    [NoResponse EXCEPT !.status = StatusOK, !.packetType = "Ack", !.sessionId = uuid]

\* bitsError
bitsError(uuid, status, code, context) ==
    [NoResponse EXCEPT !.packetType = "Ack", !.sessionId = uuid,
                       !.errorCode = FormatHex(code),
                       !.errorContext = FormatHex(context),
                       !.status = status]

\* http.Error
HttpError(text, status) == [NoResponse EXCEPT !.status = status, !.text = text]

\* strings.ToLower, on the packet types the clients of the model send.
ToLower(s) ==
    CASE s = "PING" -> "ping"
      [] s = "Fragment" -> "fragment"
      [] s = "Create-Session" -> "create-session"
      [] OTHER -> s

\* path.Split(r.RequestURI): the file is what follows the last slash.
PathFile(uri) == IF uri = <<>> THEN "" ELSE uri[Len(uri)]

\* strings.Split(header, " ") of the header made of these tokens.
SplitProtocols(tokens) == IF tokens = <<>> THEN <<"">> ELSE tokens

(***************************************************************************)
(* The state of a request being handled. A request is handled in steps,    *)
(* one per access to the file: pc is "idle" (no request: resp is the last  *)
(* response), "open" (bitsFragment before os.OpenFile), "write" (before    *)
(* file.Write, the file open) or "notify" (before the callback of a        *)
(* complete file). prev is not in the code: it remembers, while a fragment  *)
(* is handled, the received size that the answer before it reported about  *)
(* the same file (-1 when there is none).                                  *)
(***************************************************************************)
NoWorker ==
    [pc |-> "idle", req |-> BaseRequest, uuid |-> "", filename |-> "",
     rangeStart |-> 0, rangeEnd |-> 0, fileLength |-> 0, fragmentSize |-> 0,
     data |-> <<>>, exist |-> FALSE, fileSize |-> 0, append |-> FALSE,
     orphan |-> FALSE, written |-> 0, prev |-> -1, resp |-> NoResponse]

Respond(req, resp) == [NoWorker EXCEPT !.req = req, !.resp = resp]

\* A MkdirAll that creates nothing.
MkdirNothing(fsys, uuid) == fsys

\* os.MkdirAll and os.RemoveAll of the directory a session id names: TempDir
\* and its sessions are inside ParentDir.
MkdirAll(fsys, uuid) ==
    [d \in DOMAIN fsys |->
        IF d \in {uuid, ParentDir} THEN [fsys[d] EXCEPT !.exists = TRUE] ELSE fsys[d]]
RemoveAll(fsys, uuid) ==
    [d \in DOMAIN fsys |-> IF d = uuid \/ uuid = ParentDir THEN NoDir ELSE fsys[d]]

\* The callback: what it does to the temporary directory, and the event the
\* response records. A nil callback is not called.
Callback(h, fsys, event, uuid, filename) ==
    [fs |-> IF h.callback # "cleanup" \/ event = EventCreateSession THEN fsys
            ELSE IF event = EventRecieveFile
                 THEN [fsys EXCEPT ![uuid].files[filename] = NoFile]
                 ELSE RemoveAll(fsys, uuid),
     events |-> IF h.callback = "nil" THEN <<>>
                ELSE <<[event |-> event, session |-> uuid, file |-> filename]>>]

(***************************************************************************)
(* The handlers. Each gives the outcome of one step: the temporary         *)
(* directory after it, the request's state after it, and whether the I/O   *)
(* fault offered to the step happened. The faults are "rand" (rand.Reader),*)
(* "mkdir" (os.MkdirAll), "statDir" and "statFile" (os.Stat fails with     *)
(* another error than "does not exist"), "body" (reading the body),        *)
(* "open" (os.OpenFile), "fstat" (file.Stat) and "write" (file.Write).     *)
(***************************************************************************)
Outcome(fsys, worker, used) == [fs |-> fsys, worker |-> worker, fault |-> used]

DirExists(fsys, uuid) == uuid \in DOMAIN fsys /\ fsys[uuid].exists
FileExists(fsys, uuid, filename) ==
    DirExists(fsys, uuid) /\ fsys[uuid].files[filename].exists
FileData(fsys, uuid, filename) == fsys[uuid].files[filename].data

\* An exists that finds every path.
existsAlways(present, failed) == [b |-> TRUE, err |-> failed]

\* exists: b is FALSE only when os.Stat says the path does not exist; any
\* other error gives TRUE with the error.
exists(present, failed) == [b |-> present \/ failed, err |-> failed]

\* A ping that acknowledges only the sessions it finds.
bitsPingChecked(fsys, req) ==
    IF DirExists(fsys, req.sessionID)
    THEN Outcome(fsys, Respond(req, Ack(req.sessionID)), FALSE)
    ELSE Outcome(fsys, Respond(req, bitsError(req.sessionID, StatusBadRequest, 0,
                                              ErrorContextRemoteFile)), FALSE)

\* bitsPing
bitsPing(fsys, req) == Outcome(fsys, Respond(req, Ack("")), FALSE)

\* The protocol the loop of bitsCreate ends with: the first token equal to the
\* allowed method, or the last token.
SelectedProtocol(h, protocols) ==
    LET hits == {i \in 1..Len(protocols) : protocols[i] = h.cfg.AllowedMethod}
    IN  IF hits = {} THEN protocols[Len(protocols)]
        ELSE protocols[CHOOSE i \in hits : \A j \in hits : i <= j]

\* bitsCreate; fresh is the identifier newUUID draws.
bitsCreate(h, fsys, req, fault, fresh) ==
    LET protocol == SelectedProtocol(h, SplitProtocols(req.protocols))
        called == Callback(h, MkdirAll(fsys, fresh), EventCreateSession, fresh, "")
    IN  IF protocol # h.cfg.Protocol
        THEN Outcome(fsys, Respond(req, bitsError("", StatusBadRequest, 0,
                                                  ErrorContextRemoteFile)), FALSE)
        ELSE IF fault \in {"rand", "mkdir"}
        THEN Outcome(fsys, Respond(req, bitsError("", StatusInternalServerError, 0,
                                                  ErrorContextRemoteFile)), TRUE)
        ELSE Outcome(called.fs,
                     Respond(req, [Ack(fresh) EXCEPT !.protocol = protocol,
                                                     !.acceptEncoding = "Identity",
                                                     !.events = called.events]),
                     FALSE)

\* bitsCancel and bitsClose differ in the event only.
EndSession(h, fsys, req, fault, event) ==
    LET uuid == req.sessionID
        exist == exists(DirExists(fsys, uuid), fault = "statDir")
        called == Callback(h, fsys, event, uuid, "")
        bad == bitsError(uuid, StatusBadRequest, 0, ErrorContextRemoteFile)
    IN  IF uuid = "" THEN Outcome(fsys, Respond(req, bad), FALSE)
        ELSE IF exist.err THEN Outcome(fsys, Respond(req, bad), TRUE)
        ELSE IF ~exist.b THEN Outcome(fsys, Respond(req, bad), FALSE)
        ELSE Outcome(called.fs,
                     Respond(req, [Ack(uuid) EXCEPT !.events = called.events]),
                     FALSE)

\* bitsCancel
bitsCancel(h, fsys, req, fault) == EndSession(h, fsys, req, fault, EventCancelSession)

\* bitsClose
bitsClose(h, fsys, req, fault) == EndSession(h, fsys, req, fault, EventCloseSession)

\* A deny check that gives way to the allow list.
DeniedUnlessAllowed(h, filename) ==
    /\ \E i \in 1..Len(h.cfg.Disallowed) : MatchString(h.cfg.Disallowed[i], filename)
    /\ ~\E i \in 1..Len(h.cfg.Allowed) : MatchString(h.cfg.Allowed[i], filename)

\* An allow check that lets every name through.
AllowedAlways(h, filename) == TRUE

\* A size check that takes the limit 0 for a limit.
TooLargeUnlimited(h, fileLength) == fileLength > h.cfg.MaxSize

\* bitsFragment, "Check filesize".
TooLarge(h, fileLength) == h.cfg.MaxSize > 0 /\ fileLength > h.cfg.MaxSize

\* The two filter loops of bitsFragment: a name is refused when a deny pattern
\* matches it (or fails), or when no allow pattern matches it before one fails.
Denied(h, filename) ==
    \E i \in 1..Len(h.cfg.Disallowed) :
        ~Compiles(h.cfg.Disallowed[i]) \/ MatchString(h.cfg.Disallowed[i], filename)
Allowed(h, filename) ==
    \E i \in 1..Len(h.cfg.Allowed) :
        /\ Compiles(h.cfg.Allowed[i]) /\ MatchString(h.cfg.Allowed[i], filename)
        /\ \A j \in 1..(i - 1) : Compiles(h.cfg.Allowed[j])

\* bitsFragment, up to the look for the file (exists(src)).
bitsFragment(h, fsys, req, fault) ==
    LET uuid == req.sessionID
        dir == exists(DirExists(fsys, uuid), fault = "statDir")
        filename == PathFile(req.uri)
        range == parseRange(req.contentRange)
        fragmentSize == ParseUint(req.contentLength)
        bad == bitsError(uuid, StatusBadRequest, 0, ErrorContextRemoteFile)
        src == exists(FileExists(fsys, uuid, filename), fault = "statFile")
    IN  IF uuid = ""
        THEN Outcome(fsys, Respond(req, bitsError("", StatusBadRequest, 0,
                                                  ErrorContextRemoteFile)), FALSE)
        ELSE IF ~dir.b THEN Outcome(fsys, Respond(req, bad), FALSE)
        ELSE IF \/ filename = ""
                \/ Denied(h, filename)
                \/ ~Allowed(h, filename)
                \/ range.err # ""
        THEN Outcome(fsys, Respond(req, bad), dir.err)
        ELSE IF TooLarge(h, range.total)
        THEN Outcome(fsys, Respond(req, bitsError(uuid, StatusRequestEntityTooLarge, 0,
                                                  ErrorContextRemoteFile)), dir.err)
        ELSE IF ~fragmentSize.ok THEN Outcome(fsys, Respond(req, bad), dir.err)
        ELSE IF fault = "body" THEN Outcome(fsys, Respond(req, bad), TRUE)
        ELSE IF \/ Len(req.body) # fragmentSize.val
                \/ UAdd(USub(range.end, range.start), 1) # fragmentSize.val
        THEN Outcome(fsys, Respond(req, bad), dir.err)
        ELSE IF src.err THEN Outcome(fsys, Respond(req, bad), TRUE)
        ELSE Outcome(fsys,
                     [NoWorker EXCEPT !.pc = "open", !.req = req, !.uuid = uuid,
                                      !.filename = filename,
                                      !.rangeStart = range.start,
                                      !.rangeEnd = range.end,
                                      !.fileLength = range.total,
                                      !.fragmentSize = fragmentSize.val,
                                      !.data = req.body, !.exist = src.b],
                     dir.err)

\* A method check that lets every method through.
MethodAny(h, req) == TRUE

\* ServeHTTP, "Only allow BITS requests".
MethodAllowed(h, req) == req.method = h.cfg.AllowedMethod

\* A default branch that answers as a ping does.
UnknownPacketAck(fsys, req) == Outcome(fsys, Respond(req, Ack("")), FALSE)

\* ServeHTTP, the default branch of the switch.
UnknownPacket(fsys, req) ==
    Outcome(fsys, Respond(req, bitsError("", StatusBadRequest, 0,
                                         ErrorContextRemoteFile)), FALSE)

\* ServeHTTP
ServeHTTP(h, fsys, req, fault, fresh) ==
    LET packetType == ToLower(req.packetType)
    IN  IF ~MethodAllowed(h, req)
        THEN Outcome(fsys, Respond(req, HttpError("Method not allowed",
                                                  StatusMethodNotAllowed)), FALSE)
        ELSE CASE packetType = "ping" -> bitsPing(fsys, req)
               [] packetType = "create-session" -> bitsCreate(h, fsys, req, fault, fresh)
               [] packetType = "cancel-session" -> bitsCancel(h, fsys, req, fault)
               [] packetType = "close-session" -> bitsClose(h, fsys, req, fault)
               [] packetType = "fragment" -> bitsFragment(h, fsys, req, fault)
               [] OTHER -> UnknownPacket(fsys, req)

\* The answer to an accepted fragment.
FragmentAck(wk, events) ==
    Respond(wk.req,
            [Ack(wk.uuid) EXCEPT
                !.received = FormatUint(UAdd(wk.fileSize, wk.written)),
                !.events = events])

FragmentError(wk, status) ==
    Respond(wk.req, bitsError(wk.uuid, status, 0, ErrorContextRemoteFile))

\* The branch bitsFragment takes to open the file: TRUE for the one that
\* creates the file and takes its size to be 0, FALSE for the one that opens
\* it for append and reads its size.
TakesCreateBranch(exist) == exist

\* bitsFragment, "Open or create file": os.OpenFile, and file.Stat in the
\* branch that opens for append.
OpenFile(fsys, wk, fault) ==
    LET uuid == wk.uuid
        filename == wk.filename
        failed == Outcome(fsys, FragmentError(wk, StatusInternalServerError),
                          fault = "open")
    IN  IF TakesCreateBranch(wk.exist)
        THEN \* O_CREATE|O_WRONLY: creates the file when it is not there, keeps
             \* its content when it is; the descriptor writes from offset 0.
             IF fault = "open" \/ ~DirExists(fsys, uuid) THEN failed
             ELSE Outcome([fsys EXCEPT ![uuid].files[filename].exists = TRUE],
                          [wk EXCEPT !.pc = "write", !.fileSize = 0,
                                     !.append = FALSE],
                          FALSE)
        ELSE \* O_APPEND|O_WRONLY: fails when the file is not there.
             IF fault = "open" \/ ~FileExists(fsys, uuid, filename) THEN failed
             ELSE IF fault = "fstat"
             THEN Outcome(fsys, FragmentError(wk, StatusInternalServerError), TRUE)
             ELSE Outcome(fsys,
                          [wk EXCEPT !.pc = "write", !.append = TRUE,
                                     !.fileSize = Len(FileData(fsys, uuid, filename))
                                                      % UintMod],
                          FALSE)

\* file.Write of chunk through a descriptor opened for append (at the end of
\* the file) or not (at the descriptor's offset, 0 for its first write).
WriteFile(content, chunk, append) ==
    IF append THEN content \o chunk
    ELSE chunk \o SubSeq(content, Len(chunk) + 1, Len(content))

\* The offset in the payload of the first byte to write.
DataOffset(fileSize, rangeStart) == USub(fileSize, rangeStart)

\* Sanity checks that let a gap through.
SanityCheckNoGap(rangeStart, rangeEnd, fileSize) ==
    IF rangeEnd < fileSize THEN "written" ELSE ""

\* The "sanity checks" of bitsFragment: "" when the fragment goes on to the
\* write, else why it is refused.
SanityCheck(rangeStart, rangeEnd, fileSize) ==
    IF rangeEnd < fileSize THEN "written"
    ELSE IF rangeStart > fileSize THEN "gap"
    ELSE ""

\* bitsFragment from the sanity checks to the write; short is the number of
\* bytes a failing write still writes.
WriteFragment(h, fsys, wk, fault, short) ==
    LET uuid == wk.uuid
        filename == wk.filename
        dataOffset == DataOffset(wk.fileSize, wk.rangeStart)
        chunk == SubSeq(wk.data, dataOffset + 1, Len(wk.data))
        wrote == IF fault = "write" THEN SubSeq(chunk, 1, short) ELSE chunk
        after == IF wk.orphan \/ ~FileExists(fsys, uuid, filename) THEN fsys
                 ELSE [fsys EXCEPT ![uuid].files[filename].data =
                           WriteFile(FileData(fsys, uuid, filename), wrote, wk.append)]
        done == [wk EXCEPT !.written = Len(chunk) % UintMod]
    IN  IF SanityCheck(wk.rangeStart, wk.rangeEnd, wk.fileSize) # ""
        THEN Outcome(fsys,
                     Respond(wk.req,
                             [bitsError(uuid, StatusRequestedRangeNotSatisfiable, 0,
                                        ErrorContextRemoteFile)
                                 EXCEPT !.recieved = FormatUint(wk.fileSize)]),
                     FALSE)
        ELSE IF dataOffset > Len(wk.data)
        THEN \* data[dataOffset:] panics: slice bounds out of range
             Outcome(fsys, Respond(wk.req, [NoResponse EXCEPT !.panic = TRUE]), FALSE)
        ELSE IF fault = "write"
        THEN Outcome(after, FragmentError(wk, StatusInternalServerError), TRUE)
        ELSE IF done.written # USub(wk.fragmentSize, dataOffset)
        THEN Outcome(after, FragmentError(wk, StatusInternalServerError), FALSE)
        ELSE IF UAdd(wk.rangeEnd, 1) = wk.fileLength /\ h.callback # "nil"
        THEN Outcome(after, [done EXCEPT !.pc = "notify"], FALSE)
        ELSE Outcome(after, FragmentAck(done, <<>>), FALSE)

\* bitsFragment, the callback for a complete file and the answer.
NotifyFile(h, fsys, wk) ==
    LET called == Callback(h, fsys, EventRecieveFile, wk.uuid, wk.filename)
    IN  Outcome(called.fs, FragmentAck(wk, called.events), FALSE)

(***************************************************************************)
(* The state: the handler NewHandler returned, the temporary directory,    *)
(* the requests being handled, and the number of I/O faults so far.        *)
(***************************************************************************)
VARIABLES handler, fs, workers, faults

vars == <<handler, fs, workers, faults>>

\* The requests the clients of the model send.
Fragment(uuid, filename, start, end, total, body) ==
    [BaseRequest EXCEPT !.packetType = "fragment", !.sessionID = uuid,
                        !.uri = <<"BITS", filename>>,
                        !.contentRange = ContentRangeOf(start, end, total),
                        !.contentLength = FormatUint(Len(body)),
                        !.body = body]

\* The fragments of the upload of Original as a.bin, with its bytes or not.
UploadFragments(payloads) ==
    {Fragment(u, "a.bin", s, e, FileLen, IF honest THEN Honest(s, e) ELSE Forged(s, e)) :
        u \in UUIDs, s \in 0..(FileLen - 1), e \in 0..(FileLen - 1),
        honest \in payloads} \ 
    {Fragment(u, "a.bin", s, e, FileLen, <<>>) :
        u \in UUIDs, s \in 0..(FileLen - 1), e \in 0..(FileLen - 1)}

\* Fragments that are refused before the file is looked at, and fragments
\* whose numbers are unusual.
OddFragments ==
    LET u == UuidNames[1]
        ok == Fragment(u, "a.bin", 0, 0, FileLen, Honest(0, 0))
    IN  {[ok EXCEPT !.sessionID = ""],
         [ok EXCEPT !.uri = <<"BITS", "">>],
         [ok EXCEPT !.uri = <<"BITS", "b.exe">>],
         [ok EXCEPT !.contentRange = <<"0", "-", "0", "/", "3">>],
         [ok EXCEPT !.contentRange = BytesPrefix \o <<"0", "-", "x", "/", "3">>],
         [ok EXCEPT !.contentLength = <<>>],
         [ok EXCEPT !.contentLength = <<"2">>],
         [ok EXCEPT !.body = <<>>],
         [ok EXCEPT !.packetType = "Fragment"],
         [ok EXCEPT !.sessionID = ParentDir],
         Fragment(u, "a.bin", 0, 0, FileLen + 2, Honest(0, 0)),
         Fragment(u, "a.bin", 0, 1, 1, Honest(0, 1)),
         Fragment(u, "a.bin", 1, 0, FileLen, <<>>),
         Fragment(u, "a.bin", 0, UintMod - 1, 0, <<>>)}

SessionRequests ==
    {[BaseRequest EXCEPT !.packetType = "create-session", !.protocols = p] :
        p \in {<<>>, <<DefaultProtocol>>, <<"{other}">>,
               <<DefaultProtocol, "{other}">>, <<"{other}", DefaultProtocol>>}}
    \cup {[BaseRequest EXCEPT !.packetType = t, !.sessionID = u] :
        t \in {"cancel-session", "close-session"}, u \in Dirs \cup {""}}
    \cup {BaseRequest,
          [BaseRequest EXCEPT !.packetType = "PING"],
          [BaseRequest EXCEPT !.packetType = "bogus"],
          [BaseRequest EXCEPT !.method = "POST"]}

Requests == UploadFragments({TRUE, FALSE}) \cup OddFragments \cup SessionRequests

\* The temporary directory when the handler is constructed: NewHandler does
\* not touch it, so the sessions and the partial uploads an earlier run of
\* the server left are still there.
InitialDisks ==
    {[d \in Dirs |-> IF d = ParentDir THEN EmptyDir ELSE NoDir]}
    \cup {[d \in Dirs |->
              IF d = ParentDir THEN EmptyDir
              ELSE [EmptyDir EXCEPT !.files["a.bin"] =
                       [exists |-> TRUE, data |-> SubSeq(Original, 1, n)]]] :
            n \in 0..FileLen}

InitWith(configs, callbacks, workerIds, faulty) ==
    /\ \E c \in configs, cb \in callbacks :
          /\ ~NewHandler(c, cb).err
          /\ handler = NewHandler(c, cb)
    /\ fs \in InitialDisks
    /\ workers = [w \in workerIds |-> NoWorker]
    /\ faults = IF faulty THEN 0 ELSE MaxFaults

FaultChoices(points) == {"none"} \cup (IF faults < MaxFaults THEN points ELSE {})

\* A descriptor whose file is removed goes on writing to the removed file.
Orphaned(wk, before, after) ==
    IF /\ wk.pc = "write"
       /\ FileExists(before, wk.uuid, wk.filename)
       /\ ~FileExists(after, wk.uuid, wk.filename)
    THEN [wk EXCEPT !.orphan = TRUE]
    ELSE wk

\* The received size a response reports, under either spelling of the header;
\* -1 when it reports none.
Reported(resp) ==
    IF resp.received # <<>> THEN ParseUint(resp.received).val
    ELSE IF resp.recieved # <<>> THEN ParseUint(resp.recieved).val
    ELSE -1

\* The request of wk is a fragment for the file (uuid, filename).
FragmentFor(wk, uuid, filename) ==
    /\ ToLower(wk.req.packetType) = "fragment"
    /\ wk.req.sessionID = uuid
    /\ PathFile(wk.req.uri) = filename

\* The request state next, with what the answer before reported about its file.
Remember(last, next) ==
    IF last.pc = "idle" /\ next.pc # "idle" /\ FragmentFor(last, next.uuid, next.filename)
    THEN [next EXCEPT !.prev = Reported(last.resp)]
    ELSE next

Apply(w, o) ==
    /\ fs' = o.fs
    /\ workers' = [v \in DOMAIN workers |->
                      IF v = w THEN Remember(workers[w], o.worker)
                      ELSE Orphaned(workers[v], fs, o.fs)]
    /\ faults' = IF o.fault THEN faults + 1 ELSE faults
    /\ UNCHANGED handler

\* The faults that can happen while ServeHTTP handles req up to there.
FaultPoints(req) ==
    LET packetType == ToLower(req.packetType)
    IN  CASE packetType = "create-session" -> {"rand", "mkdir"}
          [] packetType \in {"cancel-session", "close-session"} -> {"statDir"}
          [] packetType = "fragment" -> {"statDir", "body", "statFile"}
          [] OTHER -> {}

\* A request arrives and is handled up to its first access to the file.
Serve(w, requests) ==
    /\ workers[w].pc = "idle"
    /\ \E req \in requests, fresh \in UUIDs :
          \E fault \in FaultChoices(FaultPoints(req)) :
              Apply(w, ServeHTTP(handler, fs, req, fault, fresh))

Open(w) ==
    /\ workers[w].pc = "open"
    /\ \E fault \in FaultChoices({"open", "fstat"}) :
          Apply(w, OpenFile(fs, workers[w], fault))

Write(w) ==
    /\ workers[w].pc = "write"
    /\ \E fault \in FaultChoices({"write"}), short \in 0..FileLen :
          /\ short = 0 \/ (fault = "write" /\ short < Len(workers[w].data))
          /\ Apply(w, WriteFragment(handler, fs, workers[w], fault, short))

Notify(w) ==
    /\ workers[w].pc = "notify"
    /\ Apply(w, NotifyFile(handler, fs, workers[w]))

(***************************************************************************)
(* Spec: the server handles one request at a time; the clients send every  *)
(* kind of request and I/O may fail.                                       *)
(***************************************************************************)
Init == InitWith({ExampleConfig}, Callbacks, {1}, TRUE)

Receive == \E w \in DOMAIN workers : Serve(w, Requests)
OpenStep == \E w \in DOMAIN workers : Open(w)
WriteStep == \E w \in DOMAIN workers : Write(w)
NotifyStep == \E w \in DOMAIN workers : Notify(w)

Next == Receive \/ OpenStep \/ WriteStep \/ NotifyStep

Spec == Init /\ [][Next]_vars

(***************************************************************************)
(* SpecConcurrent: the server handles MaxWorkers requests at a time, each  *)
(* in its own goroutine as net/http does; the clients upload Original as   *)
(* a.bin and no I/O fails.                                                 *)
(***************************************************************************)
InitConcurrent ==
    InitWith({ExampleConfig}, {"log", "cleanup"}, 1..MaxWorkers, FALSE)

ReceiveUpload == \E w \in DOMAIN workers : Serve(w, UploadFragments({TRUE}))

NextConcurrent == ReceiveUpload \/ OpenStep \/ WriteStep \/ NotifyStep

SpecConcurrent == InitConcurrent /\ [][NextConcurrent]_vars

(***************************************************************************)
(* Vocabulary of the properties.                                           *)
(***************************************************************************)
IsPrefix(a, b) == Len(a) <= Len(b) /\ SubSeq(b, 1, Len(a)) = a

\* The size of the file on disk, 0 when it does not exist yet.
SizeOnDisk(fsys, uuid, filename) ==
    IF FileExists(fsys, uuid, filename) THEN Len(FileData(fsys, uuid, filename)) ELSE 0

\* Worker w carries a fragment of the upload of Original with its own bytes.
HonestUpload(wk) ==
    /\ wk.pc # "idle"
    /\ wk.fileLength = FileLen
    /\ wk.rangeStart <= wk.rangeEnd /\ wk.rangeEnd < FileLen
    /\ wk.data = Honest(wk.rangeStart, wk.rangeEnd)

\* This step ends the request of worker w.
Answers(w) == workers[w].pc # "idle" /\ workers'[w].pc = "idle"

\* No I/O fault has happened when this step is over.
NoFault == faults = 0 /\ faults' = 0

\* C1 (reassembly correctness): a fragment of the upload that begins where
\* the file on disk ends (at 0 when there is no file yet) is accepted, so that
\* the ranges of a partition, delivered in any order and re-sent when refused,
\* are all accepted in the end; and when the fragment that ends the file is
\* accepted the file on disk is Original.
C1_Reassembly ==
    [][\A w \in DOMAIN workers :
          LET wk == workers[w]
          IN  (/\ Answers(w) /\ NoFault /\ HonestUpload(wk)
               /\ DirExists(fs, wk.uuid) /\ handler.callback # "cleanup")
              => /\ (/\ wk.pc \in {"open", "write"}
                     /\ wk.rangeStart = SizeOnDisk(fs, wk.uuid, wk.filename))
                    => workers'[w].resp.status = StatusOK
                 /\ (workers'[w].resp.status = StatusOK /\ wk.rangeEnd + 1 = FileLen)
                    => /\ FileExists(fs', wk.uuid, wk.filename)
                       /\ FileData(fs', wk.uuid, wk.filename) = Original]_vars

\* C2 (prefix invariant): while every fragment sent carries the bytes of
\* Original, the bytes of each file on disk are the first bytes of Original.
C2_PrefixInvariant ==
    \A u \in UUIDs :
        FileExists(fs, u, "a.bin") => IsPrefix(FileData(fs, u, "a.bin"), Original)

\* C3 (exactly-once-effective writes): no step changes a byte that is on
\* disk; a file that stays is only appended to.
C3_WrittenOnce ==
    [][\A u \in UUIDs, f \in FileNames :
          (FileExists(fs, u, f) /\ FileExists(fs', u, f))
          => IsPrefix(FileData(fs, u, f), FileData(fs', u, f))]_vars

\* C4 (idempotent resend): a valid fragment whose range_end is below the size
\* S of the file on disk is answered 416 with S as the received size, and the
\* file is as before.
C4_IdempotentResend ==
    [][\A w \in DOMAIN workers :
          LET wk == workers[w]
              S == SizeOnDisk(fs, wk.uuid, wk.filename)
          IN  (/\ wk.pc = "write" /\ ~wk.orphan /\ NoFault
               /\ wk.rangeStart <= wk.rangeEnd /\ wk.rangeEnd < S)
              => /\ workers'[w].pc = "idle"
                 /\ workers'[w].resp.status = StatusRequestedRangeNotSatisfiable
                 /\ Reported(workers'[w].resp) = S
                 /\ fs' = fs]_vars

\* C5 (gap rejection): a valid fragment whose range_start is above the size S
\* of the file on disk (0 when there is no file) is answered 416 with S as
\* the received size, and the temporary directory is as before.
C5_GapRejection ==
    [][\A w \in DOMAIN workers :
          LET wk == workers[w]
              S == SizeOnDisk(fs, wk.uuid, wk.filename)
          IN  (/\ wk.pc \in {"open", "write"} /\ ~wk.orphan /\ NoFault
               /\ DirExists(fs, wk.uuid)
               /\ wk.rangeStart <= wk.rangeEnd /\ wk.rangeStart > S)
              => /\ fs' = fs
                 /\ workers'[w].pc = "idle"
                    => /\ workers'[w].resp.status = StatusRequestedRangeNotSatisfiable
                       /\ Reported(workers'[w].resp) = S
                 /\ workers'[w].pc \in {"idle", "write"}]_vars

\* C6 (partial-overlap dedup): for a valid fragment with start <= S <= end,
\* S the size of the file on disk, the write appends payload[S-start:] and
\* nothing else, and the size becomes end+1.
C6_OverlapDedup ==
    [][\A w \in DOMAIN workers :
          LET wk == workers[w]
              before == FileData(fs, wk.uuid, wk.filename)
              S == Len(before)
          IN  (/\ wk.pc = "write" /\ ~wk.orphan /\ NoFault
               /\ FileExists(fs, wk.uuid, wk.filename)
               /\ wk.rangeStart <= S /\ S <= wk.rangeEnd)
              => /\ FileData(fs', wk.uuid, wk.filename)
                       = before \o SubSeq(wk.data, S - wk.rangeStart + 1, Len(wk.data))
                 /\ Len(FileData(fs', wk.uuid, wk.filename)) = wk.rangeEnd + 1]_vars

\* C7 (acknowledged size): the received size of a 200 answer to a fragment is
\* range_end + 1 and is the size of the file on disk after the request.
C7_AckIsSize ==
    [][\A w \in DOMAIN workers :
          LET wk == workers[w]
          IN  (/\ Answers(w) /\ workers'[w].resp.status = StatusOK
               /\ FileExists(fs', wk.uuid, wk.filename))
              => /\ Reported(workers'[w].resp) = wk.rangeEnd + 1
                 /\ Reported(workers'[w].resp)
                       = Len(FileData(fs', wk.uuid, wk.filename))]_vars

\* C8 (monotonic frontier): while a session is live the size of a file on disk
\* never decreases, and of two successive answers about one file the second
\* never reports a smaller received size than the first.
C8_Monotonic ==
    [][/\ \A u \in UUIDs, f \in FileNames :
             (FileExists(fs, u, f) /\ FileExists(fs', u, f))
             => Len(FileData(fs, u, f)) <= Len(FileData(fs', u, f))
       /\ \A w \in DOMAIN workers :
             (/\ Answers(w) /\ handler.callback # "cleanup"
              /\ workers[w].prev >= 0 /\ Reported(workers'[w].resp) >= 0)
             => workers[w].prev <= Reported(workers'[w].resp)]_vars

\* A request that has read the size of its file and has not yet ended its
\* write and its notification.
InCriticalSection(wk) == wk.pc \in {"write", "notify"}

\* C9 (mutual exclusion per file): no two requests for one file are at the
\* same time between the reading of its size and the end of the write and the
\* notification.
C9_MutualExclusion ==
    \A v, w \in DOMAIN workers :
        (/\ v # w
         /\ workers[v].uuid = workers[w].uuid
         /\ workers[v].filename = workers[w].filename)
        => ~(InCriticalSection(workers[v]) /\ InCriticalSection(workers[w]))

\* The tokens of a BITS-Supported-Protocols header hold the protocol p.
Advertises(tokens, p) == \E i \in 1..Len(tokens) : tokens[i] = p

\* C10 (protocol negotiation): a create-session request succeeds exactly when
\* its list of protocols holds the configured protocol, wherever in the list;
\* otherwise it is answered 400 with the context RemoteFile.
C10_Negotiation ==
    \A w \in DOMAIN workers :
        LET wk == workers[w]
        IN  (/\ wk.pc = "idle" /\ wk.resp.status # 0 /\ faults = 0
             /\ wk.req.method = handler.cfg.AllowedMethod
             /\ ToLower(wk.req.packetType) = "create-session")
            => IF Advertises(wk.req.protocols, handler.cfg.Protocol)
               THEN wk.resp.status = StatusOK
               ELSE /\ wk.resp.status = StatusBadRequest
                    /\ wk.resp.errorContext = FormatHex(ErrorContextRemoteFile)

(***************************************************************************)
(* SpecSessions: the life of the sessions. One request at a time; the      *)
(* clients send every session request of Spec and, for every session id,   *)
(* the fragment of the first byte and the fragment of the whole file; I/O  *)
(* may fail.                                                               *)
(***************************************************************************)
SessionFragments ==
    {Fragment(u, "a.bin", 0, e, FileLen, Honest(0, e)) :
        u \in Dirs \cup {""}, e \in {0, FileLen - 1}}

InitSessions == InitWith({ExampleConfig}, Callbacks, {1}, TRUE)

ReceiveSession ==
    \E w \in DOMAIN workers : Serve(w, SessionRequests \cup SessionFragments)

NextSessions == ReceiveSession \/ OpenStep \/ WriteStep \/ NotifyStep

SpecSessions == InitSessions /\ [][NextSessions]_vars

\* Worker w takes a request in this step.
Receives(w) == workers[w].pc = "idle" /\ workers'[w] # workers[w]

\* The request of wk has the allowed method and the packet type t.
IsPacket(wk, t) ==
    /\ wk.req.method = handler.cfg.AllowedMethod
    /\ ToLower(wk.req.packetType) = t

\* The event the callback gets, as the response records it.
EventsOf(event, uuid, filename) ==
    IF handler.callback = "nil" THEN <<>>
    ELSE <<[event |-> event, session |-> uuid, file |-> filename]>>

\* C11 (create-session): a create-session answered 200 has created the
\* directory of the session it names, has fired the session-created event
\* once with that id (when there is a callback), carries the configured
\* protocol in BITS-Protocol and the id in BITS-Session-Id, and a fragment
\* for that id sent next passes the check of the session.
C11_CreateSession ==
    [][\A w \in DOMAIN workers :
          LET wk == workers'[w]
              id == wk.resp.sessionId
          IN  (/\ Receives(w) /\ IsPacket(wk, "create-session")
               /\ wk.resp.status = StatusOK)
              => /\ wk.pc = "idle"
                 /\ id \in UUIDs
                 /\ DirExists(fs', id)
                 /\ wk.resp.packetType = "Ack"
                 /\ wk.resp.protocol = handler.cfg.Protocol
                 /\ wk.resp.events = EventsOf(EventCreateSession, id, "")
                 /\ bitsFragment(handler, fs',
                                 Fragment(id, "a.bin", 0, 0, FileLen, Honest(0, 0)),
                                 "none").worker.pc = "open"]_vars

\* C11's case: a create-session was answered 200 and its event was fired.
C11_Witness ==
    \E w \in DOMAIN workers :
        /\ workers[w].pc = "idle" /\ IsPacket(workers[w], "create-session")
        /\ workers[w].resp.status = StatusOK
        /\ workers[w].resp.sessionId \in UUIDs
        /\ Len(workers[w].resp.events) = 1
        /\ DirExists(fs, workers[w].resp.sessionId)

\* C12 (cancel-session): when a cancel-session for a live session is
\* acknowledged, the session-canceled event has been fired for it, its
\* directory is gone, and a cancel-session, a close-session or a fragment
\* naming it that comes next is answered 400.
C12_CancelDestroys ==
    [][\A w \in DOMAIN workers :
          LET wk == workers'[w]
              id == wk.req.sessionID
          IN  (/\ Receives(w) /\ IsPacket(wk, "cancel-session")
               /\ id \in UUIDs /\ wk.resp.status = StatusOK)
              => /\ wk.resp.events = EventsOf(EventCancelSession, id, "")
                 /\ ~DirExists(fs', id)
                 /\ \A next \in {r \in SessionRequests \cup SessionFragments :
                                     r.sessionID = id} :
                       LET o == ServeHTTP(handler, fs', next, "none", id)
                       IN  /\ o.worker.pc = "idle"
                           /\ o.worker.resp.status = StatusBadRequest]_vars

\* C13 (close-session): a close-session for a live session fires the
\* session-closed event while the directory exists, and when it is
\* acknowledged the directory is gone: the session is not live any more.
C13_CloseDestroys ==
    [][\A w \in DOMAIN workers :
          LET wk == workers'[w]
              id == wk.req.sessionID
          IN  (/\ Receives(w) /\ IsPacket(wk, "close-session")
               /\ id \in UUIDs /\ wk.resp.status = StatusOK)
              => /\ DirExists(fs, id)
                 /\ wk.resp.events = EventsOf(EventCloseSession, id, "")
                 /\ ~DirExists(fs', id)
                 /\ ~exists(DirExists(fs', id), FALSE).b]_vars

\* The packet types that name a session.
SessionPackets == {"fragment", "cancel-session", "close-session"}

\* C14 (missing session): a fragment, a cancel-session or a close-session
\* whose session id is empty or names a directory that does not exist is
\* answered 400 with error code 0 and the context RemoteFile, fires no event
\* and leaves the temporary directory as it is (os.Stat answering what is).
C14_MissingSession ==
    [][\A w \in DOMAIN workers :
          LET wk == workers'[w]
              id == wk.req.sessionID
          IN  (/\ Receives(w) /\ faults' = faults
               /\ \E t \in SessionPackets : IsPacket(wk, t)
               /\ (id = "" \/ ~DirExists(fs, id)))
              => /\ wk.pc = "idle"
                 /\ wk.resp.status = StatusBadRequest
                 /\ wk.resp.errorCode = FormatHex(0)
                 /\ wk.resp.errorContext = FormatHex(ErrorContextRemoteFile)
                 /\ wk.resp.events = <<>>
                 /\ fs' = fs]_vars

\* C14's case: a fragment for a session that does not exist was answered.
C14_Witness ==
    \E w \in DOMAIN workers :
        /\ workers[w].pc = "idle" /\ IsPacket(workers[w], "fragment")
        /\ workers[w].req.sessionID \in UUIDs
        /\ ~DirExists(fs, workers[w].req.sessionID)
        /\ workers[w].resp.status = StatusBadRequest

\* C15 (malformed session id): a fragment, a cancel-session or a close-session
\* whose session id is not a generated identifier (".." here), or during which
\* the check of the session directory fails with an error, is refused with
\* 400 as one for a session that does not exist: no event, nothing changed,
\* whatever directories there are on disk.
C15_MalformedSession ==
    [][\A w \in DOMAIN workers :
          LET wk == workers'[w]
              id == wk.req.sessionID
          IN  (/\ Receives(w)
               /\ \E t \in SessionPackets : IsPacket(wk, t)
               /\ (id \notin UUIDs \/ faults' > faults))
              => /\ wk.pc = "idle"
                 /\ wk.resp.status = StatusBadRequest
                 /\ wk.resp.events = <<>>
                 /\ fs' = fs]_vars

(***************************************************************************)
(* SpecPolicy: the filename filter and the size limit. One request at a    *)
(* time, no I/O fault; the handler has one of three configurations and the *)
(* clients send well-formed fragments for every file name, the empty one   *)
(* included, with a declared length within and beyond the limit.           *)
(***************************************************************************)
PolicyConfigs == {ExampleConfig, ZeroConfig, ExeOnlyConfig}

PolicyFragments ==
    {[Fragment(u, "a.bin", 0, e, total, Honest(0, e)) EXCEPT !.uri = <<"BITS", f>>] :
        u \in UUIDs, f \in FileNames \cup {""}, e \in {0, FileLen - 1},
        total \in {FileLen, FileLen + 2}}

InitPolicy == InitWith(PolicyConfigs, {"log"}, {1}, FALSE)

ReceivePolicy == \E w \in DOMAIN workers : Serve(w, PolicyFragments)

NextPolicy == ReceivePolicy \/ OpenStep \/ WriteStep \/ NotifyStep

SpecPolicy == InitPolicy /\ [][NextPolicy]_vars

\* Some pattern of the list matches the name.
MatchesAny(patterns, filename) ==
    \E i \in 1..Len(patterns) : MatchString(patterns[i], filename)

\* The request of wk is refused with 400 in this step and nothing changes.
Refused(wk) ==
    /\ wk.pc = "idle"
    /\ wk.resp.status = StatusBadRequest
    /\ wk.resp.events = <<>>
    /\ fs' = fs

\* C16 (filter precedence): a fragment whose file name matches a deny pattern
\* is refused with 400 and nothing is written, also when the name matches an
\* allow pattern.
C16_DenyFirst ==
    [][\A w \in DOMAIN workers :
          LET wk == workers'[w]
          IN  (/\ Receives(w) /\ IsPacket(wk, "fragment")
               /\ MatchesAny(handler.cfg.Disallowed, PathFile(wk.req.uri)))
              => Refused(wk)]_vars

\* C16's case: a fragment for a live session whose name matches a deny pattern
\* and an allow pattern was refused.
C16_Witness ==
    \E w \in DOMAIN workers :
        /\ workers[w].pc = "idle" /\ IsPacket(workers[w], "fragment")
        /\ DirExists(fs, workers[w].req.sessionID)
        /\ MatchesAny(handler.cfg.Disallowed, PathFile(workers[w].req.uri))
        /\ MatchesAny(handler.cfg.Allowed, PathFile(workers[w].req.uri))
        /\ workers[w].resp.status = StatusBadRequest

\* The handler without its filename filter: every name allowed, none denied.
Unfiltered(h) == [h EXCEPT !.cfg.Allowed = <<MatchAll>>, !.cfg.Disallowed = <<>>]

\* C17 (allow list): a fragment whose file name is empty, or matches no deny
\* pattern and no allow pattern, is refused with 400 and nothing is written;
\* a fragment whose name matches no deny pattern and some allow pattern is
\* handled as it would be without a filter.
C17_AllowList ==
    [][\A w \in DOMAIN workers :
          LET wk == workers'[w]
              filename == PathFile(wk.req.uri)
              denied == MatchesAny(handler.cfg.Disallowed, filename)
              allowed == MatchesAny(handler.cfg.Allowed, filename)
              free == bitsFragment(Unfiltered(handler), fs, wk.req, "none").worker
          IN  (Receives(w) /\ IsPacket(wk, "fragment") /\ faults' = faults)
              => /\ (filename = "" \/ (~denied /\ ~allowed)) => Refused(wk)
                 /\ (filename # "" /\ ~denied /\ allowed)
                    => (wk.pc = free.pc /\ wk.resp = free.resp)]_vars

\* C17's case: a fragment for a live session whose name matches no deny
\* pattern and no allow pattern was refused.
C17_Witness ==
    \E w \in DOMAIN workers :
        /\ workers[w].pc = "idle" /\ IsPacket(workers[w], "fragment")
        /\ DirExists(fs, workers[w].req.sessionID)
        /\ PathFile(workers[w].req.uri) # ""
        /\ ~MatchesAny(handler.cfg.Disallowed, PathFile(workers[w].req.uri))
        /\ ~MatchesAny(handler.cfg.Allowed, PathFile(workers[w].req.uri))
        /\ workers[w].resp.status = StatusBadRequest

\* The fragment of wk is one for a live session and a permitted file name,
\* with a Content-Range that parses.
ReachesSizeCheck(wk) ==
    /\ IsPacket(wk, "fragment")
    /\ DirExists(fs, wk.req.sessionID)
    /\ PathFile(wk.req.uri) # ""
    /\ ~MatchesAny(handler.cfg.Disallowed, PathFile(wk.req.uri))
    /\ MatchesAny(handler.cfg.Allowed, PathFile(wk.req.uri))
    /\ parseRange(wk.req.contentRange).err = ""

\* C18 (size policy): with MaxSize > 0 a fragment that declares a total
\* length above MaxSize is answered 413 and nothing is written; with
\* MaxSize = 0 no request is answered 413.
C18_SizePolicy ==
    [][\A w \in DOMAIN workers :
          LET wk == workers'[w]
          IN  Receives(w)
              => /\ (/\ ReachesSizeCheck(wk)
                     /\ handler.cfg.MaxSize > 0
                     /\ parseRange(wk.req.contentRange).total > handler.cfg.MaxSize)
                    => /\ wk.pc = "idle"
                       /\ wk.resp.status = StatusRequestEntityTooLarge
                       /\ wk.resp.events = <<>>
                       /\ fs' = fs
                 /\ handler.cfg.MaxSize = 0
                    => wk.resp.status # StatusRequestEntityTooLarge]_vars

\* C18's case: with a limit, a fragment declaring more than the limit was
\* answered 413.
C18_Witness ==
    \E w \in DOMAIN workers :
        /\ workers[w].pc = "idle" /\ ReachesSizeCheck(workers[w])
        /\ handler.cfg.MaxSize > 0
        /\ parseRange(workers[w].req.contentRange).total > handler.cfg.MaxSize
        /\ workers[w].resp.status = StatusRequestEntityTooLarge

\* C19 (completion): with a callback set, the answer to a fragment comes
\* after exactly one file-received event, carrying the session id and the
\* file, when the fragment is accepted and its range_end + 1 is its total;
\* it comes after no event when the fragment is refused or its
\* range_end + 1 is not its total.
C19_Completion ==
    [][\A w \in DOMAIN workers :
          LET after == workers'[w]
              range == parseRange(after.req.contentRange)
              final == /\ after.resp.status = StatusOK
                       /\ range.err = ""
                       /\ range.end + 1 = range.total
          IN  (/\ (Answers(w) \/ Receives(w)) /\ after.pc = "idle" /\ NoFault
               /\ IsPacket(after, "fragment") /\ handler.callback # "nil")
              => after.resp.events =
                    IF final
                    THEN <<[event |-> EventRecieveFile,
                            session |-> after.req.sessionID,
                            file |-> PathFile(after.req.uri)]>>
                    ELSE <<>>]_vars

\* The same for the fragments whose range_end is below their total.
C19_WithinTotal ==
    [][\A w \in DOMAIN workers :
          LET after == workers'[w]
              range == parseRange(after.req.contentRange)
          IN  (/\ (Answers(w) \/ Receives(w)) /\ after.pc = "idle"
               /\ IsPacket(after, "fragment") /\ handler.callback # "nil"
               /\ (range.err = "" => range.end < range.total))
              => after.resp.events =
                    IF after.resp.status = StatusOK /\ range.end + 1 = range.total
                    THEN <<[event |-> EventRecieveFile,
                            session |-> after.req.sessionID,
                            file |-> PathFile(after.req.uri)]>>
                    ELSE <<>>]_vars

\* C20 (range within the total): a fragment whose range_end is not below its
\* declared total is never answered 200, and no step of its handling changes
\* the temporary directory.
C20_EndBelowTotal ==
    [][\A w \in DOMAIN workers :
          LET after == workers'[w]
              range == parseRange(after.req.contentRange)
          IN  (/\ (workers[w].pc # "idle" \/ Receives(w)) /\ NoFault
               /\ IsPacket(after, "fragment")
               /\ range.err = "" /\ range.end >= range.total)
              => /\ after.resp.status # StatusOK
                 /\ fs' = fs]_vars

\* The fragment of wk passes the checks that come before those of its length:
\* live session, permitted name, Content-Range that parses, declared total
\* within the limit, Content-Length that parses.
ReachesLengthCheck(wk) ==
    /\ ReachesSizeCheck(wk)
    /\ ~TooLarge(handler, parseRange(wk.req.contentRange).total)
    /\ ParseUint(wk.req.contentLength).ok

\* The length checks of the fragment of wk: the range has as many bytes as
\* Content-Length says, and so has the body.
LengthsAgree(wk) ==
    LET range == parseRange(wk.req.contentRange)
        declared == ParseUint(wk.req.contentLength).val
    IN  /\ range.end - range.start + 1 = declared
        /\ Len(wk.req.body) = declared

\* C21 (length checks): a fragment is answered 200 only if range_end -
\* range_start + 1 is its Content-Length and its body has that many bytes;
\* when one of the two fails the fragment is refused with 400 and the context
\* RemoteFile, and nothing is changed.
C21_LengthChecks ==
    [][\A w \in DOMAIN workers :
          LET after == workers'[w]
          IN  (/\ (workers[w].pc # "idle" \/ Receives(w)) /\ NoFault
               /\ ReachesLengthCheck(after) /\ ~LengthsAgree(after))
              => /\ Refused(after)
                 /\ after.resp.errorContext = FormatHex(ErrorContextRemoteFile)]_vars

\* The same for the fragments whose range_end is below their total.
C21_WithinTotal ==
    [][\A w \in DOMAIN workers :
          LET after == workers'[w]
              range == parseRange(after.req.contentRange)
          IN  (/\ (workers[w].pc # "idle" \/ Receives(w)) /\ NoFault
               /\ ReachesLengthCheck(after) /\ ~LengthsAgree(after)
               /\ range.end < range.total)
              => /\ Refused(after)
                 /\ after.resp.errorContext = FormatHex(ErrorContextRemoteFile)]_vars

\* C22 (416 header): a fragment refused with 416 reports the size of the file
\* on disk in the header BITS-Received-Content-Range, the header of the 200
\* acknowledgement.
C22_RangeHeader ==
    [][\A w \in DOMAIN workers :
          (/\ Answers(w) /\ NoFault
           /\ workers'[w].resp.status = StatusRequestedRangeNotSatisfiable)
          => workers'[w].resp.received =
                 FormatUint(SizeOnDisk(fs, workers[w].uuid, workers[w].filename))]_vars

\* What the 416 does carry: the size the handler took the file to have, in
\* the header BITS-Recieved-Content-Range, and no BITS-Received-Content-Range.
C22_AsSent ==
    [][\A w \in DOMAIN workers :
          (/\ Answers(w) /\ NoFault
           /\ workers'[w].resp.status = StatusRequestedRangeNotSatisfiable)
          => /\ workers'[w].resp.received = <<>>
             /\ workers'[w].resp.recieved = FormatUint(workers[w].fileSize)]_vars


(***************************************************************************)
(* SpecDispatch: one request at a time to a handler whose method is the    *)
(* default or another one; the clients send every packet type, known or    *)
(* not, with every method of the model and with every session id; I/O may  *)
(* fail.                                                                   *)
(***************************************************************************)
\* A configuration whose method is not the default one.
PostConfig == [ExampleConfig EXCEPT !.AllowedMethod = "POST"]

Methods == {DefaultMethod, "POST", "GET"}
PacketTypes ==
    {"ping", "PING", "create-session", "cancel-session", "close-session",
     "fragment", "bogus", ""}
KnownPacketTypes ==
    {"ping", "create-session", "cancel-session", "close-session", "fragment"}

\* Every request carries what a fragment needs: the whole of Original.
DispatchRequests ==
    {[Fragment(u, "a.bin", 0, FileLen - 1, FileLen, Original)
         EXCEPT !.method = m, !.packetType = t] :
        u \in Dirs \cup {""}, m \in Methods, t \in PacketTypes}

InitDispatch == InitWith({ExampleConfig, PostConfig}, {"log"}, {1}, TRUE)

ReceiveDispatch == \E w \in DOMAIN workers : Serve(w, DispatchRequests)

NextDispatch == ReceiveDispatch \/ OpenStep \/ WriteStep \/ NotifyStep

SpecDispatch == InitDispatch /\ [][NextDispatch]_vars

ErrorSessions == {"", "123"} \cup UUIDs
ErrorStatuses == {StatusOK, StatusBadRequest}
ErrorCodes == {-1, 0, 10, 16, 255}
ErrorContexts ==
    {ErrorContextNone, ErrorContextUnknown, ErrorContextGeneralQueueManager,
     ErrorContextQueueManagerNotification, ErrorContextLocalFile,
     ErrorContextRemoteFile, ErrorContextGeneralTransport,
     ErrorContextRemoteApplication}

\* The test calls bitsError without a handler; the temporary directory has no
\* part in it.
InitErrors ==
    /\ handler = NewHandler(ZeroConfig, "nil")
    /\ fs = [d \in Dirs |-> IF d = ParentDir THEN EmptyDir ELSE NoDir]
    /\ workers = [w \in {1} |-> NoWorker]
    /\ faults = MaxFaults

\* The recorder of the test receives the response of bitsError.
CallBitsError(uuid, status, code, context) ==
    /\ workers' = [w \in DOMAIN workers |->
                      [NoWorker EXCEPT !.uuid = uuid,
                                       !.resp = bitsError(uuid, status, code, context)]]
    /\ UNCHANGED <<handler, fs, faults>>

NextErrors ==
    \E uuid \in ErrorSessions, status \in ErrorStatuses,
       code \in ErrorCodes, context \in ErrorContexts :
        CallBitsError(uuid, status, code, context)

SpecErrors == InitErrors /\ [][NextErrors]_vars

\* s is the lower-case hex rendering of n: digits 0-9 and a-f whose value is
\* n, with no leading zero, after a minus sign when n is negative.
LowerHex == <<"0", "1", "2", "3", "4", "5", "6", "7", "8", "9",
              "a", "b", "c", "d", "e", "f">>
RECURSIVE HexValue(_)
HexValue(s) ==
    IF s = <<>> THEN 0
    ELSE 16 * HexValue(SubSeq(s, 1, Len(s) - 1))
         + (CHOOSE i \in 0..15 : LowerHex[i + 1] = s[Len(s)])
IsHexOf(s, n) ==
    LET digits == IF n < 0 THEN Tail(s) ELSE s
        value == IF n < 0 THEN -n ELSE n
    IN  /\ s # <<>> /\ digits # <<>>
        /\ n < 0 => Head(s) = "-"
        /\ \A i \in 1..Len(digits) : \E j \in 1..16 : LowerHex[j] = digits[i]
        /\ Len(digits) > 1 => digits[1] # "0"
        /\ HexValue(digits) = value

Responds(w) == workers'[w] # workers[w] /\ workers'[w].pc = "idle"

\* C26, first part: every 4xx response carries the error context RemoteFile.
C26_ClientErrors ==
    [][\A w \in DOMAIN workers :
          (Responds(w) /\ workers'[w].resp.status \in 400..499)
          => workers'[w].resp.errorContext = FormatHex(ErrorContextRemoteFile)]_vars

\* C26, last part: a request is not answered 5xx (nor by a panic) unless an
\* I/O operation failed.
C26_NoServerError ==
    [][\A w \in DOMAIN workers :
          (Responds(w) /\ NoFault)
          => workers'[w].resp.status < 500 /\ ~workers'[w].resp.panic]_vars

\* C26, middle part: when creating the session (rand.Reader, os.MkdirAll),
\* opening the file (os.OpenFile, file.Stat) or writing it fails, the answer
\* is 5xx.
C26_ServerErrors ==
    [][\A w \in DOMAIN workers :
          (/\ Responds(w) /\ faults' > faults
           /\ \/ workers[w].pc \in {"open", "write"}
              \/ ToLower(workers'[w].req.packetType) = "create-session")
          => workers'[w].resp.status \in 500..599]_vars

\* C26 (error classes): the client's errors are answered 4xx with the context
\* RemoteFile, the server's failures 5xx, and no request is answered 5xx when
\* no I/O operation fails.
C26_ErrorClasses ==
    [][\A w \in DOMAIN workers :
          Responds(w)
          => LET resp == workers'[w].resp
             IN  /\ resp.status \in 400..499
                    => resp.errorContext = FormatHex(ErrorContextRemoteFile)
                 /\ NoFault => resp.status < 500 /\ ~resp.panic
                 /\ (/\ faults' > faults
                     /\ \/ workers[w].pc \in {"open", "write"}
                        \/ ToLower(workers'[w].req.packetType) = "create-session")
                    => resp.status \in 500..599]_vars


(***************************************************************************)
(* SpecDestroy: the server handles MaxWorkers requests at a time; the      *)
(* clients upload Original as a.bin and cancel or close their sessions;    *)
(* no I/O fails.                                                           *)
(***************************************************************************)
DestroyRequests ==
    {[BaseRequest EXCEPT !.packetType = t, !.sessionID = u] :
        t \in {"cancel-session", "close-session"}, u \in UUIDs}

InitDestroy == InitWith({ExampleConfig}, {"log", "cleanup"}, 1..MaxWorkers, FALSE)

ReceiveDestroy ==
    \E w \in DOMAIN workers : Serve(w, UploadFragments({TRUE}) \cup DestroyRequests)

NextDestroy == ReceiveDestroy \/ OpenStep \/ WriteStep \/ NotifyStep

SpecDestroy == InitDestroy /\ [][NextDestroy]_vars

\* The fragment of wk is between the reading of the file's size and the end
\* of its write.
Appending(wk) == wk.pc = "write"

\* C27 (destroy does not race a write): while a fragment for a session is
\* between reading the size of its file and finishing its append, a
\* cancel-session or close-session for that session neither removes the
\* session's directory nor notifies the listener.
C27_DestroyWaits ==
    [][\A w, v \in DOMAIN workers :
          LET after == workers'[w]
          IN  (/\ w # v /\ Receives(w)
               /\ IsPacket(after, "cancel-session") \/ IsPacket(after, "close-session")
               /\ Appending(workers[v])
               /\ workers[v].uuid = after.req.sessionID)
              => /\ DirExists(fs', after.req.sessionID)
                 /\ after.resp.events = <<>>]_vars


\* The handler holds cfg and callback and nothing about the sessions, so a
\* handler constructed anew is the handler of every state of Spec, with the
\* temporary directory of that state. It takes for live the sessions whose
\* directory exists: a cancel-session or close-session is acknowledged exactly
\* for those, and a fragment goes on to its file only for those.
C28_LiveSessions ==
    [][\A w \in DOMAIN workers :
          LET after == workers'[w]
              id == after.req.sessionID
          IN  (Receives(w) /\ NoFault /\ id # "")
              => /\ IsPacket(after, "cancel-session") \/ IsPacket(after, "close-session")
                    => (after.resp.status = StatusOK <=> DirExists(fs, id))
                 /\ IsPacket(after, "fragment")
                    => /\ after.pc # "idle" => DirExists(fs, id)
                       /\ ~DirExists(fs, id) => Refused(after)]_vars

\* C28 (restart safety): a handler constructed anew over the temporary
\* directory an earlier run left takes for live exactly the sessions whose
\* directories exist, and goes on with each partial file from its size on
\* disk: the size a fragment is checked against and appended at is the size
\* of the file.
C28_RestartSafety ==
    [][\A w \in DOMAIN workers :
          LET after == workers'[w]
              id == after.req.sessionID
          IN  /\ (Receives(w) /\ NoFault /\ id # "")
                 => /\ IsPacket(after, "cancel-session") \/ IsPacket(after, "close-session")
                       => (after.resp.status = StatusOK <=> DirExists(fs, id))
                    /\ IsPacket(after, "fragment")
                       => /\ after.pc # "idle" => DirExists(fs, id)
                          /\ ~DirExists(fs, id) => Refused(after)
              /\ (workers[w].pc = "open" /\ after.pc = "write")
                 => after.fileSize = SizeOnDisk(fs', after.uuid, after.filename)]_vars


(***************************************************************************)
(* SpecConstruct: NewHandler called with configurations whose fields are   *)
(* empty or given, and whose patterns compile or not; the handler, when    *)
(* there is one, then serves fragments one at a time. No I/O fails.        *)
(***************************************************************************)
OtherProtocol == "{11111111-2222-3333-4444-555555555555}"

ConstructConfigs ==
    {[TempDir |-> t, AllowedMethod |-> m, Protocol |-> p, MaxSize |-> x,
      Allowed |-> a, Disallowed |-> d] :
        t \in {"", "/tmp"}, m \in {"", "FOO_BAR"}, p \in {"", OtherProtocol},
        x \in {0, FileLen + 1},
        a \in {<<>>, <<ExePattern>>, <<BadPattern>>, <<MatchAll, BadPattern>>},
        d \in {<<>>, <<ExePattern>>, <<BadPattern>>}}

ConstructRequests ==
    {[r EXCEPT !.method = m] : r \in PolicyFragments, m \in {DefaultMethod, "FOO_BAR"}}

InitConstruct ==
    /\ \E c \in ConstructConfigs : handler = NewHandler(c, "log")
    /\ fs \in InitialDisks
    /\ workers = [w \in {1} |-> NoWorker]
    /\ faults = MaxFaults

\* Without a handler no request is served.
ReceiveConstruct ==
    /\ ~handler.err
    /\ \E w \in DOMAIN workers : Serve(w, ConstructRequests)

NextConstruct == ReceiveConstruct \/ OpenStep \/ WriteStep \/ NotifyStep

SpecConstruct == InitConstruct /\ [][NextConstruct]_vars

\* A pattern of the configuration c does not compile.
HasBadPattern(c) ==
    \/ \E i \in 1..Len(c.Allowed) : c.Allowed[i] = BadPattern
    \/ \E i \in 1..Len(c.Disallowed) : c.Disallowed[i] = BadPattern

\* C29 (construction fails fast): NewHandler returns an error and no handler
\* exactly when an allow or deny pattern does not compile; so every pattern of
\* a constructed handler compiles, whatever request it is serving, and no
\* request is served without a handler.
C29_FailFast ==
    /\ \A c \in ConstructConfigs :
          handler = NewHandler(c, "log")
          => /\ handler.err <=> HasBadPattern(c)
             /\ handler.err => handler = NilHandler
    /\ ~handler.err
       => /\ \A i \in 1..Len(handler.cfg.Allowed) : handler.cfg.Allowed[i] # BadPattern
          /\ \A i \in 1..Len(handler.cfg.Disallowed) :
                handler.cfg.Disallowed[i] # BadPattern
    /\ handler.err => \A w \in DOMAIN workers : workers[w] = NoWorker

\* NewHandler has returned an error for a pattern that does not compile.
C29_Witness == handler.err

\* C30 (defaults): NewHandler puts BITS_POST, the BITS 1.5 upload protocol,
\* <system temp>/gobits and the allow list [".*"] in place of an empty
\* AllowedMethod, Protocol, TempDir and allow list, and keeps every field that
\* is given, MaxSize and the deny list among them; the allow list of a handler
\* is never empty.
C30_Defaults ==
    /\ \A c \in ConstructConfigs :
          (handler = NewHandler(c, "log") /\ ~handler.err)
          => LET cfg == handler.cfg
             IN  /\ cfg.AllowedMethod = IF c.AllowedMethod = "" THEN "BITS_POST"
                                        ELSE c.AllowedMethod
                 /\ cfg.Protocol = IF c.Protocol = ""
                                   THEN "{7df0354d-249b-430f-820d-3d2a9bef4931}"
                                   ELSE c.Protocol
                 /\ cfg.TempDir = IF c.TempDir = "" THEN DefaultTempDir ELSE c.TempDir
                 /\ cfg.Allowed = IF c.Allowed = <<>> THEN <<".*">> ELSE c.Allowed
                 /\ cfg.MaxSize = c.MaxSize
                 /\ cfg.Disallowed = c.Disallowed
    /\ ~handler.err => Len(handler.cfg.Allowed) > 0

\* The handler of Config{} serves a request: it has every default, no size
\* limit and no deny pattern.
C30_Witness ==
    /\ handler = NewHandler(ZeroConfig, "log")
    /\ handler.cfg.Allowed = <<".*">>
    /\ \E w \in DOMAIN workers : workers[w].resp.status = StatusOK


(***************************************************************************)
(* SpecRange: parseRange called as TestParseRange calls it, once per       *)
(* header: with the prefix "bytes " or without, followed by up to          *)
(* MaxRangeLen characters among digits, a letter, the dash and the slash.  *)
(***************************************************************************)
MaxRangeLen == 6

RangeChars == {"1", "9", "a", "-", "/"}

RangeTails ==
    UNION {[1..n -> RangeChars] : n \in 0..MaxRangeLen}

RangeInputs ==
    {p \o t : p \in {BytesPrefix, <<>>}, t \in RangeTails}

InitRange ==
    /\ handler = NewHandler(ZeroConfig, "nil")
    /\ fs = [d \in Dirs |-> IF d = ParentDir THEN EmptyDir ELSE NoDir]
    /\ workers = [w \in {1} |-> NoWorker]
    /\ faults = MaxFaults

\* The test keeps what parseRange returned for its input: the three numbers,
\* and the text of the error.
CallParseRange(input) ==
    LET range == parseRange(input)
    IN  /\ workers' = [w \in DOMAIN workers |->
                          [NoWorker EXCEPT !.req.contentRange = input,
                                           !.rangeStart = range.start,
                                           !.rangeEnd = range.end,
                                           !.fileLength = range.total,
                                           !.resp.text = range.err]]
        /\ UNCHANGED <<handler, fs, faults>>

\* One call per run of a test case.
NextRange ==
    /\ \A w \in DOMAIN workers : workers[w] = NoWorker
    /\ \E input \in RangeInputs : CallParseRange(input)

SpecRange == InitRange /\ [][NextRange]_vars

\* The shape of a header, read off its characters: the text after the first
\* six characters, the number of its slashes, the text before its first slash
\* and after it, the number of dashes before the slash, the text before the
\* first dash and between it and the slash.
CountOf(s, c) == Cardinality({i \in 1..Len(s) : s[i] = c})
FirstOf(s, c) == CHOOSE i \in 1..(Len(s) + 1) :
                    /\ i = Len(s) + 1 \/ s[i] = c
                    /\ \A j \in 1..(i - 1) : s[j] # c
Before(s, c) == SubSeq(s, 1, FirstOf(s, c) - 1)
After(s, c) == SubSeq(s, FirstOf(s, c) + 1, Len(s))
WellShaped(s) ==
    /\ Len(s) >= 6 /\ SubSeq(s, 1, 6) = <<"b", "y", "t", "e", "s", " ">>
    /\ CountOf(SubSeq(s, 7, Len(s)), "/") = 1
    /\ CountOf(Before(SubSeq(s, 7, Len(s)), "/"), "-") = 1
OneSlash(s) ==
    /\ Len(s) >= 6 /\ SubSeq(s, 1, 6) = <<"b", "y", "t", "e", "s", " ">>
    /\ CountOf(SubSeq(s, 7, Len(s)), "/") = 1
TotalOf(s) == After(SubSeq(s, 7, Len(s)), "/")
StartOf(s) == Before(Before(SubSeq(s, 7, Len(s)), "/"), "-")
EndOf(s) == After(Before(SubSeq(s, 7, Len(s)), "/"), "-")

\* f is a non-negative decimal integer, and its value.
Numeric(f) ==
    /\ f # <<>>
    /\ \A i \in 1..Len(f) : f[i] \in {"0", "1", "2", "3", "4", "5", "6", "7", "8", "9"}
RECURSIVE DecValue(_)
DecValue(f) ==
    IF f = <<>> THEN 0
    ELSE 10 * DecValue(SubSeq(f, 1, Len(f) - 1))
         + (CHOOSE d \in 0..9 : FormatUint(d) = <<f[Len(f)]>>)
\* f is a number of the unsigned type.
Fits(f) == Numeric(f) /\ DecValue(f) < UintMod

\* What parseRange returned to the test of worker w.
Returned(w) ==
    [input |-> workers'[w].req.contentRange,
     start |-> workers'[w].rangeStart, end |-> workers'[w].rangeEnd,
     total |-> workers'[w].fileLength, err |-> workers'[w].resp.text]

\* C31 as it is stated: parseRange returns the three numbers and no error
\* exactly for the headers "bytes <start>-<end>/<total>" of three non-negative
\* decimal integers; for every other header an error and three zeros, the
\* error being a syntax error only for a wrong shape and a number error only
\* for a field that is no number.
C31_AsStated ==
    [][\A w \in DOMAIN workers :
          workers'[w] # workers[w]
          => LET r == Returned(w)
                 s == r.input
                 good == /\ WellShaped(s)
                         /\ Numeric(StartOf(s)) /\ Numeric(EndOf(s))
                         /\ Numeric(TotalOf(s))
             IN  /\ r.err = "" <=> good
                 /\ good => /\ r.start = DecValue(StartOf(s))
                            /\ r.end = DecValue(EndOf(s))
                            /\ r.total = DecValue(TotalOf(s))
                 /\ r.err # "" => r.start = 0 /\ r.end = 0 /\ r.total = 0
                 /\ r.err \in {"", "syntax", "number"}
                 /\ r.err = "syntax" => ~WellShaped(s)
                 /\ r.err = "number"
                    => \/ OneSlash(s) /\ ~Numeric(TotalOf(s))
                       \/ WellShaped(s)
                          /\ (~Numeric(StartOf(s)) \/ ~Numeric(EndOf(s)))]_vars

\* C31 (range parsing), amended: parseRange returns the three numbers and no
\* error exactly for the headers "bytes <start>-<end>/<total>" of three
\* non-negative decimal integers that fit the unsigned 64-bit type; for every
\* other header an error and three zeros, the error being a syntax error only
\* for a wrong shape and a number error only for a field that is no number or
\* does not fit.
C31_RangeParsing ==
    [][\A w \in DOMAIN workers :
          workers'[w] # workers[w]
          => LET r == Returned(w)
                 s == r.input
                 good == /\ WellShaped(s)
                         /\ Fits(StartOf(s)) /\ Fits(EndOf(s)) /\ Fits(TotalOf(s))
             IN  /\ r.err = "" <=> good
                 /\ good => /\ r.start = DecValue(StartOf(s))
                            /\ r.end = DecValue(EndOf(s))
                            /\ r.total = DecValue(TotalOf(s))
                 /\ r.err # "" => r.start = 0 /\ r.end = 0 /\ r.total = 0
                 /\ r.err \in {"", "syntax", "number"}
                 /\ r.err = "syntax" => ~WellShaped(s)
                 /\ r.err = "number"
                    => \/ OneSlash(s) /\ ~Fits(TotalOf(s))
                       \/ WellShaped(s)
                          /\ (~Fits(StartOf(s)) \/ ~Fits(EndOf(s)))]_vars

\* parseRange has returned the numbers of "bytes 1-9/11".
C31_Witness ==
    \E w \in DOMAIN workers :
        /\ workers[w].req.contentRange = BytesPrefix \o <<"1", "-", "9", "/", "1", "1">>
        /\ workers[w].rangeStart = 1 /\ workers[w].rangeEnd = 9
        /\ workers[w].fileLength = 11
        /\ workers[w].resp.text = ""


(***************************************************************************)
(* SpecFragments: one request at a time, fragments only: those of the      *)
(* upload of Original with every start and end, the fragments with         *)
(* unusual numbers and fragments longer than MaxSize, over every initial   *)
(* size of the file. No I/O fails.                                         *)
(***************************************************************************)
\* Fragments whose range is one byte longer than MaxSize allows a file to be,
\* with a total within MaxSize.
OversizeFragments ==
    {Fragment(u, "a.bin", 0, ExampleConfig.MaxSize, total,
              [i \in 1..(ExampleConfig.MaxSize + 1) |-> i]) :
        u \in UUIDs, total \in {1, FileLen}}

InitFragments == InitWith({ExampleConfig}, {"log"}, {1}, FALSE)

ReceiveFragment ==
    \E w \in DOMAIN workers :
        Serve(w, UploadFragments({TRUE}) \cup OddFragments \cup OversizeFragments)

NextFragments == ReceiveFragment \/ OpenStep \/ WriteStep \/ NotifyStep

SpecFragments == InitFragments /\ [][NextFragments]_vars

\* The fragment of wk is at its append: the file is open and the sanity checks
\* let it through.
AtAppend(wk) ==
    /\ wk.pc = "write"
    /\ SanityCheck(wk.rangeStart, wk.rangeEnd, wk.fileSize) = ""

InitLive == InitWith({ExampleConfig}, {"nil", "cleanup"}, {1}, TRUE)

ReceiveLive ==
    \E w \in DOMAIN workers :
        Serve(w, SessionRequests \cup SessionFragments \cup OddFragments)

NextLive == ReceiveLive \/ OpenStep \/ WriteStep \/ NotifyStep

SpecLive ==
    /\ InitLive /\ [][NextLive]_vars
    /\ WF_vars(OpenStep) /\ WF_vars(WriteStep) /\ WF_vars(NotifyStep)

\* The statuses of the handler's responses.
Statuses ==
    {StatusOK, StatusBadRequest, StatusMethodNotAllowed, StatusRequestEntityTooLarge,
     StatusRequestedRangeNotSatisfiable, StatusInternalServerError}

ResyncStart(wk) ==
    IF Reported(wk.resp) >= 0 THEN Reported(wk.resp)
    ELSE IF wk.resp = NoResponse THEN 0
    ELSE parseRange(wk.req.contentRange).start

\* The last response acknowledges the fragment that ends the file, with the
\* event of the received file.
FileReceived(wk) ==
    /\ wk.pc = "idle"
    /\ wk.resp.status = StatusOK
    /\ wk.resp.events = EventsOf(EventRecieveFile, wk.req.sessionID, PathFile(wk.req.uri))
    /\ wk.resp.events # <<>>

InitResync ==
    /\ InitWith({ExampleConfig}, {"log", "cleanup"}, {1}, FALSE)
    /\ \A u \in UUIDs : DirExists(fs, u)

ReceiveResync ==
    \E w \in DOMAIN workers :
        /\ ~FileReceived(workers[w])
        /\ ResyncStart(workers[w]) < FileLen
        /\ Serve(w, {Fragment(UuidNames[1], "a.bin", ResyncStart(workers[w]), e, FileLen,
                              Honest(ResyncStart(workers[w]), e)) :
                        e \in ResyncStart(workers[w])..(FileLen - 1)})

NextResync == ReceiveResync \/ OpenStep \/ WriteStep \/ NotifyStep

\* The client has a fragment to send: it has its answer, the file is not
\* received and the reported size is not the whole file.
ClientCanSend ==
    \E w \in DOMAIN workers :
        /\ workers[w].pc = "idle"
        /\ ~FileReceived(workers[w])
        /\ ResyncStart(workers[w]) < FileLen

\* Weak fairness of the client's sending, with what enables it written out:
\* a client that can always send again does send again and again.
ClientKeepsSending ==
    \/ []<>(~ClientCanSend)
    \/ []<><<\E w \in {1} : Receives(w)>>_vars

SpecResync ==
    /\ InitResync /\ [][NextResync]_vars
    /\ ClientKeepsSending
    /\ WF_vars(OpenStep) /\ WF_vars(WriteStep) /\ WF_vars(NotifyStep)

\* C34 (progress): the client that resends from the reported size has, in the
\* end, the fragment that ends the file accepted and the file-received event
\* fired.
C34_Progress == <>(\E w \in {1} : FileReceived(workers[w]))


\* The session a request is about: the one it names, or for a create-session
\* the one the answer names.
SessionOf(wk) ==
    IF ToLower(wk.req.packetType) = "create-session" THEN wk.resp.sessionId
    ELSE wk.req.sessionID

\* C35 (independence): a step of a request about one session leaves the
\* directory and the files of every other session as they were, and a step of
\* a fragment leaves the other files of its own session as they were.
C35_Independence ==
    [][\A w \in DOMAIN workers :
          LET after == workers'[w]
              id == SessionOf(after)
          IN  (workers'[w] # workers[w] /\ NoFault)
              => /\ \A u \in UUIDs : u # id => fs'[u] = fs[u]
                 /\ (IsPacket(after, "fragment") /\ id \in UUIDs)
                    => \A f \in FileNames :
                          f # PathFile(after.req.uri)
                          => fs'[id].files[f] = fs[id].files[f]]_vars


\* The same for the handler by itself, with a listener that removes nothing.
C35_HandlerAlone ==
    [][\A w \in DOMAIN workers :
          LET after == workers'[w]
              id == SessionOf(after)
          IN  (workers'[w] # workers[w] /\ NoFault /\ handler.callback # "cleanup")
              => /\ \A u \in UUIDs : u # id => fs'[u] = fs[u]
                 /\ (IsPacket(after, "fragment") /\ id \in UUIDs)
                    => \A f \in FileNames :
                          f # PathFile(after.req.uri)
                          => fs'[id].files[f] = fs[id].files[f]]_vars


\* C36 (ping): a ping with the allowed method is answered at once with 200
\* and BITS-Packet-Type Ack, the same whatever session id comes with it; it
\* fires no event, does no I/O and changes nothing in the temporary
\* directory.
C36_Ping ==
    [][\A w \in DOMAIN workers :
          LET after == workers'[w]
          IN  (Receives(w) /\ IsPacket(after, "ping"))
              => /\ after.pc = "idle"
                 /\ after.resp = [NoResponse EXCEPT !.status = StatusOK,
                                                    !.packetType = "Ack"]
                 /\ fs' = fs /\ faults' = faults]_vars

\* A ping that names a session that does not exist has been acknowledged.
C36_Witness ==
    \E w \in DOMAIN workers :
        /\ workers[w].pc = "idle"
        /\ IsPacket(workers[w], "ping")
        /\ workers[w].req.sessionID \in UUIDs
        /\ ~DirExists(fs, workers[w].req.sessionID)
        /\ workers[w].resp.status = StatusOK


\* C37 (size limit): with a MaxSize above 0, no file of the temporary
\* directory is ever longer than MaxSize bytes.
C37_NeverBeyondMaxSize ==
    handler.cfg.MaxSize > 0
    => \A d \in DOMAIN fs : \A f \in FileNames :
          Len(fs[d].files[f].data) <= handler.cfg.MaxSize

\* The same for the writes of the fragments whose range_end is below their
\* total: such a write leaves no file longer than MaxSize.
C37_WithinTotal ==
    [][\A w \in DOMAIN workers :
          (/\ workers[w].pc = "write"
           /\ workers[w].rangeEnd < workers[w].fileLength
           /\ handler.cfg.MaxSize > 0)
          => \A d \in DOMAIN fs : \A f \in FileNames :
                Len(fs[d].files[f].data) <= handler.cfg.MaxSize
                => Len(fs'[d].files[f].data) <= handler.cfg.MaxSize]_vars


(***************************************************************************)
(* SpecResend: one client sends its fragments one after the other over     *)
(* MaxWorkers connections, so the last response of every connection is     *)
(* still known while the next request is handled. The fragments are those  *)
(* of the upload of Original as a.bin and the whole file under a longer    *)
(* total. The listener records the events and leaves the files in place.   *)
(* No I/O fails.                                                           *)
(***************************************************************************)
ResendFragments ==
    UploadFragments({TRUE})
    \cup {Fragment(u, "a.bin", 0, FileLen - 1, FileLen + 1, Original) : u \in UUIDs}

InitResend == InitWith({ExampleConfig}, {"log"}, 1..MaxWorkers, FALSE)

ReceiveResend ==
    /\ \A v \in DOMAIN workers : workers[v].pc = "idle"
    /\ \E w \in DOMAIN workers : Serve(w, ResendFragments)

NextResend == ReceiveResend \/ OpenStep \/ WriteStep \/ NotifyStep

SpecResend == InitResend /\ [][NextResend]_vars

\* C38 (file-received once): for one session and one filename whose file the
\* listener leaves in place, no two requests are both answered with the
\* file-received event.
C38_AtMostOnce ==
    \A v, w \in DOMAIN workers :
        (/\ v # w
         /\ FileReceived(workers[v])
         /\ FileReceived(workers[w])
         /\ workers[v].req.sessionID = workers[w].req.sessionID
         /\ PathFile(workers[v].req.uri) = PathFile(workers[w].req.uri))
        => ~FileExists(fs, workers[w].req.sessionID, PathFile(workers[w].req.uri))


\* The fragment of wk is answered 200 with a payload of at least one byte
\* and a range_end that is not below its range_start.
CarriesBytes(wk) ==
    LET range == parseRange(wk.req.contentRange)
    IN  /\ Len(wk.req.body) >= 1
        /\ range.start <= range.end
        /\ Reported(wk.resp) >= 1

\* C39 (no empty fragment): every fragment answered 200 appends at least one
\* byte; a fragment with an empty payload or with range_end < range_start is
\* never accepted, whatever its numbers are.
C39_NoEmptyFragment ==
    [][\A w \in DOMAIN workers :
          (/\ Responds(w)
           /\ IsPacket(workers'[w], "fragment")
           /\ workers'[w].resp.status = StatusOK)
          => CarriesBytes(workers'[w])]_vars

\* The same for the fragments whose range_end is not the largest number of
\* the machine word.
C39_WithoutWrap ==
    [][\A w \in DOMAIN workers :
          (/\ Responds(w)
           /\ IsPacket(workers'[w], "fragment")
           /\ workers'[w].resp.status = StatusOK
           /\ parseRange(workers'[w].req.contentRange).end < UintMod - 1)
          => CarriesBytes(workers'[w])]_vars


\* The request of wk is a fragment answered 400, 413 or 416, or a
\* create-session answered 400 or 500.
Rejected(wk) ==
    \/ /\ IsPacket(wk, "fragment")
       /\ wk.resp.status \in {StatusBadRequest, StatusRequestEntityTooLarge,
                              StatusRequestedRangeNotSatisfiable}
    \/ /\ IsPacket(wk, "create-session")
       /\ wk.resp.status \in {StatusBadRequest, StatusInternalServerError}

\* The fragment of wk has its file open and the sanity checks will refuse it.
OpenedInVain(wk) ==
    /\ wk.pc = "write"
    /\ SanityCheck(wk.rangeStart, wk.rangeEnd, wk.fileSize) # ""

\* C40 (rejections leave no trace): a fragment answered 400, 413 or 416 and
\* a create-session answered 400 or 500 leave the temporary directory as it
\* was and fire no event: the step that answers changes nothing and records
\* no event, and neither the arrival of the fragment nor the opening of the
\* file of a fragment that is then refused creates or changes a file.
C40_NoTrace ==
    [][\A w \in DOMAIN workers :
          LET before == workers[w]
              after == workers'[w]
          IN  /\ (Responds(w) /\ Rejected(after))
                 => fs' = fs /\ after.resp.events = <<>>
              /\ (before.pc = "idle" /\ after.pc = "open") => fs' = fs
              /\ (before.pc = "open" /\ OpenedInVain(after)) => fs' = fs]_vars

====
